---- MODULE Spec2Model ----
(***************************************************************************)
(* Model of idb/client/grpc.py: the GrpcClient facade.                     *)
(*                                                                         *)
(* The facade is built once (__init__), after which any number of          *)
(* coroutines run on one cooperative event loop.  A coroutine runs without *)
(* interruption between two awaits, so every action below is the code      *)
(* between two suspension points.                                          *)
(***************************************************************************)
EXTENDS Integers, Sequences, FiniteSets, TLC

\* ------------------------------------------------------------------ bounds
\* number of coroutines that call provide_client
NumCallers == 3
\* longest file_paths list handed to add_media
MaxItems == 2
\* longest chunk sequence the archive generator yields
MaxChunks == 2

Callers == 1..NumCallers
\* The coroutines that call one remote operation of the facade.  They write no
\* field of the facade and each opens its own stream, so the specifications
\* below say which of them run.
Calls == {"c1", "c2"}

\* Python's None, for a slot holding an object identity (identities are 1, 2, ...)
None == 0

\* ------------------------------------------------------------ input domains
Paths == {"a", "b"}
Chunks == {"c1", "c2"}
\* names a caller may put in the permission set of approve
PermissionNames == {"photos", "camera", "contacts", "microphone", "location"}
Points == {"None", "pt"}
Udids == {"None", "udid1"}

RECURSIVE SeqsUpTo(_, _)
SeqsUpTo(S, n) ==
    IF n = 0 THEN {<<>>}
    ELSE LET shorter == SeqsUpTo(S, n - 1)
         IN  shorter \cup {Append(q, x) : q \in {r \in shorter : Len(r) = n - 1}, x \in S}

\* ---------------------------------------------------------------- exceptions
\* An exception object: its class, its .message attribute (GRPCError only) and
\* its .args tuple.  An element of .args is a string or a nested tuple.
StrV(s) == [tag |-> "str", str |-> s, items |-> <<>>]
TupV(q) == [tag |-> "tuple", str |-> "", items |-> q]
Exc(type, message, args) == [type |-> type, message |-> message, args |-> args]
NoExc == Exc("none", "", <<>>)

\* grpclib.exceptions.GRPCError(status, message): args == (status, message)
GRPCError(m) == Exc("GRPCError", m, <<StrV("UNKNOWN"), StrV(m)>>)
ProtocolError(a) == Exc("ProtocolError", "", <<StrV(a)>>)
StreamTerminatedError(a) == Exc("StreamTerminatedError", "", <<StrV(a)>>)
\* idb.common.types.IdbException(x): args == (x,)
IdbException(x) == Exc("IdbException", "", <<x>>)
KeyError(k) == Exc("KeyError", "", <<StrV(k)>>)
AttributeError(a) == Exc("AttributeError", "", <<StrV(a)>>)
OSError(a) == Exc("OSError", "", <<StrV(a)>>)
\* asyncio.CancelledError, raised in a coroutine at the await it is suspended on
CancelledError == Exc("CancelledError", "", <<>>)

VARIABLES
    constructed,        \* "no" before __init__, "ok" after it returned, "threw" if it raised
    force_kill_daemon,  \* self.force_kill_daemon
    target_udid,        \* self.target_udid
    daemon_channel,     \* self.daemon_channel: None or a Channel identity
    daemon_stub,        \* self.daemon_stub: None or a stub identity
    channel,            \* self.channel (companion)
    stub,               \* self.stub (companion)
    companion_info,     \* self.companion_info: "unset" or "local" / "remote"
    channels,           \* every Channel ever constructed: sequence of "daemon"/"companion"
    stubs,              \* every CompanionServiceStub ever constructed: its channel's identity
    spawnCalls,         \* every call of daemon_spawner.start_daemon_if_needed
    resolveCalls,       \* number of calls of get_companion_info
    logged,             \* what __init__ passed to self.logger.info
    resolved,           \* how get_companion_info ended: "" (not called), "ok", or the
                        \* class of the exception it raised
    installed,          \* the attributes the loop of lines 84-87 set on the facade
    loaderCalls,        \* the daemon_provider of every call of ipc_loader.client_calls
    streams,            \* every stream add_media.open() returned, with what was done on it
    prov,               \* the provide_client coroutines
    call                \* the remote-operation coroutines

facadeVars == <<constructed, force_kill_daemon, target_udid, channel, stub,
                companion_info, resolveCalls, logged, resolved, installed, loaderCalls>>
daemonVars == <<daemon_channel, daemon_stub, spawnCalls>>
vars == <<constructed, force_kill_daemon, target_udid, daemon_channel, daemon_stub,
          channel, stub, companion_info, channels, stubs, spawnCalls, resolveCalls,
          logged, resolved, installed, loaderCalls, streams, prov, call>>

\* ---------------------------------------------------------------- initial state
\* CompanionClient(stub, is_local, udid, logger), the value provide_client returns
CompanionClient(s, l, u) == [stub |-> s, is_local |-> l, udid |-> u]
NoHandle == CompanionClient(None, FALSE, "None")

IdleProv == [pc |-> "idle", handle |-> NoHandle, exc |-> NoExc, afterSuccess |-> FALSE]

IdleCall == [pc |-> "idle", op |-> "none", paths |-> <<>>, perms |-> {}, point |-> "None",
             i |-> 0, tar |-> <<>>, gen |-> <<>>, stream |-> "none", sid |-> None,
             sent |-> <<>>,
             fault |-> NoExc, exc |-> NoExc]

\* Before __init__ runs nothing exists.
Init ==
    /\ constructed = "no"
    /\ force_kill_daemon = FALSE
    /\ target_udid = "None"
    /\ daemon_channel = None
    /\ daemon_stub = None
    /\ channel = None
    /\ stub = None
    /\ companion_info = "unset"
    /\ channels = <<>>
    /\ stubs = <<>>
    /\ spawnCalls = <<>>
    /\ resolveCalls = 0
    /\ logged = <<>>
    /\ resolved = ""
    /\ installed = <<>>
    /\ loaderCalls = <<>>
    /\ streams = <<>>
    /\ prov = [t \in Callers |-> IdleProv]
    /\ call = [c \in Calls |-> IdleCall]

\* ------------------------------------------------------------------ __init__
\* What DirectCompanionManager.get_companion_info may do: return the info of a
\* local or a remote companion, raise the domain error, or raise something else.
ResolveOutcomes ==
    { [info |-> "local", exc |-> NoExc],
      [info |-> "remote", exc |-> NoExc],
      [info |-> "unset", exc |-> IdbException(StrV("no companion"))],
      [info |-> "unset", exc |-> OSError("state file")] }

\* (mutant) the except clause of line 108 names another exception class
CaughtAtConstruction_OSError(e) == e.type = "OSError"

\* except IdbException as e  (line 108)
CaughtAtConstruction(e) == e.type = "IdbException"

\* The call registry of ipc_loader: the names of the declared calls, in order.
Registry == <<"launch", "install", "terminate">>

\* ipc_loader.client_calls(daemon_provider): one (call_name, f) pair per entry of
\* the registry, f being the entry's handler produced with daemon_provider.
client_calls(daemon_provider) ==
    [k \in DOMAIN Registry |->
        [call_name |-> Registry[k],
         f |-> [handler |-> Registry[k], provider |-> daemon_provider]]]

\* (mutant) every name gets the handler of the last pair
InstallCalls_LastHandler(pairs) ==
    [n \in {pairs[k].call_name : k \in DOMAIN pairs} |->
        [f |-> pairs[Len(pairs)].f, wrapped |-> FALSE]]

\* The loop of lines 84-87, setattr(self, call_name, f): the attribute call_name
\* holds f as the loader returned it (a later pair of the same name replaces an
\* earlier one); log_and_handle_exceptions is not applied to it.
InstallCalls(pairs) ==
    [n \in {pairs[k].call_name : k \in DOMAIN pairs} |->
        LET last == CHOOSE k \in DOMAIN pairs :
                       /\ pairs[k].call_name = n
                       /\ \A j \in DOMAIN pairs : pairs[j].call_name = n => j <= k
        IN  [f |-> pairs[last].f, wrapped |-> FALSE]]

\* The remote operations the class defines itself, each under the decorator
\* log_and_handle_exceptions (lines 138, 153, 163, 182).
DecoratedMethods == {"list_apps", "accessibility_info", "add_media", "approve"}

\* (mutant) __init__ asks the resolver again
ResolveTwice(n) == n + 2

\* Lines 96-98: the one call of get_companion_info
ResolveOnce(n) == n + 1

\* GrpcClient.__init__: lines 79-83 set the daemon fields, 92-94 the companion
\* fields, 95-109 resolve the companion and open its channel and stub.
Construct(fk, udid, r) ==
    /\ constructed = "no"
    /\ force_kill_daemon' = fk
    /\ target_udid' = udid
    /\ daemon_channel' = None
    /\ daemon_stub' = None
    /\ loaderCalls' = Append(loaderCalls, "provide_client")
    /\ installed' = InstallCalls(client_calls("provide_client"))
    /\ resolveCalls' = ResolveOnce(resolveCalls)
    /\ resolved' = IF r.exc = NoExc THEN "ok" ELSE r.exc.type
    /\ IF r.exc = NoExc
       THEN /\ companion_info' = r.info
            /\ logged' = Append(logged, "using companion")
            /\ channels' = Append(channels, "companion")
            /\ channel' = Len(channels) + 1
            /\ stubs' = Append(stubs, Len(channels) + 1)
            /\ stub' = Len(stubs) + 1
            /\ constructed' = "ok"
       ELSE /\ companion_info' = "unset"
            /\ channel' = None
            /\ stub' = None
            /\ UNCHANGED <<channels, stubs>>
            /\ IF CaughtAtConstruction(r.exc)
               THEN /\ logged' = Append(logged, r.exc.type)
                    /\ constructed' = "ok"
               ELSE /\ logged' = logged
                    /\ constructed' = "threw"
    /\ UNCHANGED <<spawnCalls, streams, prov, call>>

\* ------------------------------------------------------------ provide_client
\* Lines 112-114: the call of start_daemon_if_needed, with the flag of the
\* facade; the coroutine is suspended until the spawner finishes.
ProvideCallSpawner(t) ==
    /\ constructed = "ok"
    /\ prov[t].pc = "idle"
    /\ spawnCalls' = Append(spawnCalls, [caller |-> t, force_kill |-> force_kill_daemon])
    /\ prov' = [prov EXCEPT ![t].pc = "spawning",
                            ![t].afterSuccess = \E u \in Callers : prov[u].pc = "done"]
    /\ UNCHANGED <<facadeVars, daemon_channel, daemon_stub, channels, stubs, streams, call>>

\* (mutant) the guard of line 115 lost: every call dials
NeedsDial_Always == TRUE

\* if not self.daemon_channel or not self.daemon_stub  (line 115)
NeedsDial == daemon_channel = None \/ daemon_stub = None

\* (mutant) the coroutine is suspended between lines 118 and 119: the channel
\* is stored, the stub is not yet
ProvideReturn_ChannelOnly(t) ==
    /\ prov[t].pc = "spawning"
    /\ channels' = Append(channels, "daemon")
    /\ daemon_channel' = Len(channels) + 1
    /\ UNCHANGED <<stubs, daemon_stub>>
    /\ prov' = [prov EXCEPT ![t].pc = "done",
                            ![t].handle = CompanionClient(daemon_stub, TRUE, target_udid)]
    /\ UNCHANGED <<facadeVars, spawnCalls, streams, call>>

\* Lines 115-125, run without suspension once the spawner returned: open the
\* channel and stub if either is missing, return the handle around the stub.
ProvideReturn(t) ==
    /\ prov[t].pc = "spawning"
    /\ IF NeedsDial
       THEN /\ channels' = Append(channels, "daemon")
            /\ daemon_channel' = Len(channels) + 1
            /\ stubs' = Append(stubs, Len(channels) + 1)
            /\ daemon_stub' = Len(stubs) + 1
       ELSE UNCHANGED <<channels, stubs, daemon_channel, daemon_stub>>
    /\ prov' = [prov EXCEPT ![t].pc = "done",
                            ![t].handle = CompanionClient(daemon_stub', TRUE, target_udid)]
    /\ UNCHANGED <<facadeVars, spawnCalls, streams, call>>

\* (mutant) the failure of the spawner is swallowed and the call dials
ProvideSpawnFailed_DialsAnyway(t) ==
    /\ prov[t].pc = "spawning"
    /\ channels' = Append(channels, "daemon")
    /\ daemon_channel' = Len(channels) + 1
    /\ stubs' = Append(stubs, Len(channels) + 1)
    /\ daemon_stub' = Len(stubs) + 1
    /\ prov' = [prov EXCEPT ![t].pc = "failed", ![t].exc = OSError("spawn")]
    /\ UNCHANGED <<facadeVars, spawnCalls, streams, call>>

\* The spawner raised: the await at line 112 raises in the caller.
ProvideSpawnFailed(t) ==
    /\ prov[t].pc = "spawning"
    /\ prov' = [prov EXCEPT ![t].pc = "failed", ![t].exc = OSError("spawn")]
    /\ UNCHANGED <<facadeVars, daemonVars, channels, stubs, streams, call>>

\* ------------------------------------------------- log_and_handle_exceptions
\* The except clauses of lines 57-60, applied to an exception raised inside the
\* try statement of lines 54-60.
HandleException(e) ==
    CASE e.type = "GRPCError" -> IdbException(StrV(e.message))
      [] e.type \in {"ProtocolError", "StreamTerminatedError"} -> IdbException(TupV(e.args))
      [] OTHER -> e

\* Where an exception is raised, relative to func_wrapper (lines 52-55).
\* "call": while func(*args, **kwargs) is evaluated at line 55.  Every wrapped
\* func is an `async def` (lines 139, 154, 164, 183) and func_wrapper is a plain
\* `def` that returns func(...) without awaiting it: line 55 only builds the
\* coroutine object.  "body": while that coroutine runs, which is when the
\* caller awaits the object func_wrapper returned, after the try was left.
RaisedInsideTry(where) == where = "call"

\* log_call(name=...) around func_wrapper: logs the call boundary and lets the
\* result or the exception of the wrapped call through.
log_call(e) == e

\* (mutant) func_wrapper turns every exception into the domain exception
func_wrapper_CatchAll(e, where) == IdbException(TupV(e.args))

\* The exception the awaiting caller observes when e is raised at `where`.
func_wrapper(e, where) ==
    log_call(IF RaisedInsideTry(where) THEN HandleException(e) ELSE e)

\* ---------------------------------------------------------- remote operations
\* APPROVE_MAP, lines 39-43
APPROVE_MAP == [k \in {"photos", "camera", "contacts"} |->
                  CASE k = "photos" -> "PHOTOS"
                    [] k = "camera" -> "CAMERA"
                    [] k = "contacts" -> "CONTACTS"]

\* The arguments of one call of a remote operation of the facade.
CallArgs ==
    {[op |-> "list_apps", paths |-> <<>>, perms |-> {}, point |-> "None"]}
    \cup {[op |-> "accessibility_info", paths |-> <<>>, perms |-> {}, point |-> p] :
            p \in Points}
    \cup {[op |-> "add_media", paths |-> q, perms |-> {}, point |-> "None"] :
            q \in SeqsUpTo(Paths, MaxItems)}
    \cup {[op |-> "approve", paths |-> <<>>, perms |-> ps, point |-> "None"] :
            ps \in SUBSET PermissionNames}

\* What the transport may do at a network await: complete, or raise.
TransportFaults == {GRPCError("m1"), ProtocolError("a1"), StreamTerminatedError("a1")}
OtherFaults == {OSError("conn")}
Outcomes == {NoExc} \cup TransportFaults \cup OtherFaults

\* What a call puts on, or takes from, the companion connection.
\* A unary request: its message type, its point (accessibility_info) and its
\* permissions (approve).
Request(type, point, perms) ==
    [kind |-> "request", name |-> type, value |-> point, perms |-> perms]
\* stream.send_message(AddMediaRequest(payload=Payload(<field>=<value>)))
StreamMessage(field, value) ==
    [kind |-> "send", name |-> field, value |-> value, perms |-> {}]
\* stream.end()
EndOfInput == [kind |-> "end", name |-> "", value |-> "", perms |-> {}]
\* stream.recv_message()
AckRead == [kind |-> "recv", name |-> "", value |-> "", perms |-> {}]

\* (mutant) the exception leaves the coroutine without the exit of `async with`
Raised_LeavesStreamOpen(c, e) ==
    [call[c] EXCEPT !.pc = "raised", !.fault = e, !.exc = func_wrapper(e, "body")]

\* (mutant) the exception is swallowed and the coroutine goes on
Raised_GoesOn(c, e) == [call[c] EXCEPT !.fault = e]

\* The body of the coroutine raises e (kept in fault): an open stream is closed
\* by the exit of `async with` (line 165), and the caller observes (exc) what
\* func_wrapper lets out.
Raised(c, e) ==
    [call[c] EXCEPT !.pc = "raised",
                    !.fault = e,
                    !.exc = func_wrapper(e, "body"),
                    !.stream = IF call[c].stream = "open" THEN "closed" ELSE call[c].stream]

\* The caller calls facade.<op>(args): func_wrapper builds the coroutine (line 55)
\* and the caller starts awaiting it.
Invoke(c, a) ==
    /\ constructed = "ok"
    /\ call[c].pc = "idle"
    /\ call' = [call EXCEPT ![c] = [IdleCall EXCEPT !.pc = "started", !.op = a.op,
                                        !.paths = a.paths, !.perms = a.perms,
                                        !.point = a.point]]
    /\ UNCHANGED <<facadeVars, daemonVars, channels, stubs, streams, prov>>

\* self.stub.<method> where self.stub is None
NoStub(method) == AttributeError(method)

\* list_apps, line 140: the request is sent and the coroutine awaits the reply.
ListAppsCall(c) ==
    /\ call[c].pc = "started" /\ call[c].op = "list_apps"
    /\ call' = [call EXCEPT ![c] =
                  IF stub = None THEN Raised(c, NoStub("list_apps"))
                  ELSE [call[c] EXCEPT !.pc = "awaiting",
                            !.sent = Append(@, Request("ListAppsRequest", "", {}))]]
    /\ UNCHANGED <<facadeVars, daemonVars, channels, stubs, streams, prov>>

\* accessibility_info, lines 157-160
AccessibilityInfoCall(c) ==
    /\ call[c].pc = "started" /\ call[c].op = "accessibility_info"
    /\ call' = [call EXCEPT ![c] =
                  IF stub = None THEN Raised(c, NoStub("accessibility_info"))
                  ELSE [call[c] EXCEPT !.pc = "awaiting",
                            !.sent = Append(@, Request("AccessibilityInfoRequest",
                                                       call[c].point, {}))]]
    /\ UNCHANGED <<facadeVars, daemonVars, channels, stubs, streams, prov>>

\* (mutant) the comprehension of line 187 skips the names APPROVE_MAP lacks
ApprovePermissions_SkipUnknown(perms) ==
    [ok |-> TRUE, value |-> {APPROVE_MAP[p] : p \in perms \cap DOMAIN APPROVE_MAP},
     missing |-> {}]

\* [APPROVE_MAP[permission] for permission in permissions], line 187: the list
\* of the mapped values, or the KeyError of a name that is no key of APPROVE_MAP
\* (missing: the names whose lookup raises; a set is iterated in any order).
ApprovePermissions(perms) ==
    IF perms \subseteq DOMAIN APPROVE_MAP
    THEN [ok |-> TRUE, value |-> {APPROVE_MAP[p] : p \in perms}, missing |-> {}]
    ELSE [ok |-> FALSE, value |-> {}, missing |-> perms \ DOMAIN APPROVE_MAP]

\* approve, lines 184-189: self.stub.approve is evaluated first, then the
\* argument (the request with the mapped permissions), then the call is made.
ApproveCall(c) ==
    /\ call[c].pc = "started" /\ call[c].op = "approve"
    /\ LET mapped == ApprovePermissions(call[c].perms)
       IN  IF stub = None
           THEN call' = [call EXCEPT ![c] = Raised(c, NoStub("approve"))]
           ELSE IF ~mapped.ok
                THEN \E k \in mapped.missing :
                        call' = [call EXCEPT ![c] = Raised(c, KeyError(k))]
                ELSE call' = [call EXCEPT ![c] =
                                [call[c] EXCEPT !.pc = "awaiting",
                                   !.sent = Append(@, Request("ApproveRequest", "",
                                                              mapped.value))]]
    /\ UNCHANGED <<facadeVars, daemonVars, channels, stubs, streams, prov>>

\* The await of a unary call (lines 140, 158, 184) ends: with the reply, or
\* with an exception of the transport.
UnaryReply(c, o) ==
    /\ call[c].pc = "awaiting"
    /\ call' = [call EXCEPT ![c] =
                  IF o = NoExc THEN [call[c] EXCEPT !.pc = "done"] ELSE Raised(c, o)]
    /\ UNCHANGED <<facadeVars, daemonVars, channels, stubs, streams, prov>>

\* ------------------------------------------------------------------ add_media
\* generate_tar(paths=file_paths, place_in_subfolders=True): a finite sequence
\* of byte chunks, which depends on the files' contents.
TarOutputs == SeqsUpTo(Chunks, MaxChunks)

\* (mutant) the chunk is put in the payload's file_path field
ChunkRequest_AsPath(chunk) == StreamMessage("file_path", chunk)

\* lambda chunk: AddMediaRequest(payload=Payload(data=chunk))  (line 176)
ChunkRequest(chunk) == StreamMessage("data", chunk)

\* AddMediaRequest(payload=Payload(file_path=file_path))  (line 169)
PathRequest(file_path) == StreamMessage("file_path", file_path)

\* (mutant) open() hands out one stream, kept and reused
OpenedStream_Reused == IF streams = <<>> THEN Len(streams) + 1 ELSE 1

\* self.stub.add_media.open() (line 165): a stream object of its own per call
OpenedStream == Len(streams) + 1

\* The stream of call c after c did ev on it
OnStream(c, ev) ==
    [streams EXCEPT ![call[c].sid].events = Append(@, [by |-> c, msg |-> ev])]

\* Line 165, `async with self.stub.add_media.open() as stream`, and line 166,
\* the choice of the encoding; for a remote companion lines 174-177 build the
\* generator over the archive, whose output is tar.
AddMediaOpen(c, tar) ==
    /\ call[c].pc = "started" /\ call[c].op = "add_media"
    /\ call' = [call EXCEPT ![c] =
                  IF stub = None THEN Raised(c, NoStub("add_media"))
                  ELSE IF companion_info = "local"
                       THEN [call[c] EXCEPT !.stream = "open", !.sid = OpenedStream,
                                            !.pc = "sending", !.i = 0]
                       ELSE [call[c] EXCEPT !.stream = "open", !.sid = OpenedStream,
                                            !.pc = "draining",
                                            !.tar = tar, !.gen = tar]]
    /\ (stub = None \/ companion_info = "local") => tar = <<>>
    /\ streams' = IF stub = None \/ OpenedStream <= Len(streams) THEN streams
                  ELSE Append(streams, [owner |-> c, events |-> <<>>])
    /\ UNCHANGED <<facadeVars, daemonVars, channels, stubs, prov>>

\* (mutant) the loop of line 167 walks file_paths from its end
NextPath_Reversed(c) == call[c].paths[Len(call[c].paths) - call[c].i]

\* The next file_path of the loop of lines 167-170
NextPath(c) == call[c].paths[call[c].i + 1]

\* Lines 167-170: one iteration of the loop, one send_message.
AddMediaSend(c, o) ==
    /\ call[c].pc = "sending" /\ call[c].i < Len(call[c].paths)
    /\ call' = [call EXCEPT ![c] =
                  IF o = NoExc
                  THEN [call[c] EXCEPT !.i = @ + 1,
                                       !.sent = Append(@, PathRequest(NextPath(c)))]
                  ELSE Raised(c, o)]
    /\ streams' = IF o = NoExc THEN OnStream(c, PathRequest(NextPath(c))) ELSE streams
    /\ UNCHANGED <<facadeVars, daemonVars, channels, stubs, prov>>

\* Line 171: await stream.end(), after the loop.
AddMediaEnd(c, o) ==
    /\ call[c].pc = "sending" /\ call[c].i = Len(call[c].paths)
    /\ call' = [call EXCEPT ![c] =
                  IF o = NoExc
                  THEN [call[c] EXCEPT !.pc = "ended", !.sent = Append(@, EndOfInput)]
                  ELSE Raised(c, o)]
    /\ streams' = IF o = NoExc THEN OnStream(c, EndOfInput) ELSE streams
    /\ UNCHANGED <<facadeVars, daemonVars, channels, stubs, prov>>

\* Line 172: await stream.recv_message(); then the block of `async with` is
\* left, which closes the stream, and add_media returns.
AddMediaRecv(c, o) ==
    /\ call[c].pc = "ended"
    /\ call' = [call EXCEPT ![c] =
                  IF o = NoExc
                  THEN [call[c] EXCEPT !.pc = "done", !.stream = "closed",
                                       !.sent = Append(@, AckRead)]
                  ELSE Raised(c, o)]
    /\ streams' = IF o = NoExc THEN OnStream(c, AckRead) ELSE streams
    /\ UNCHANGED <<facadeVars, daemonVars, channels, stubs, prov>>

\* drain_to_stream (called at lines 178-180): send each message of the
\* generator in turn ...
DrainToStreamSend(c, o) ==
    /\ call[c].pc = "draining" /\ call[c].gen # <<>>
    /\ call' = [call EXCEPT ![c] =
                  IF o = NoExc
                  THEN [call[c] EXCEPT !.gen = Tail(@),
                                       !.sent = Append(@, ChunkRequest(Head(call[c].gen)))]
                  ELSE Raised(c, o)]
    /\ streams' = IF o = NoExc THEN OnStream(c, ChunkRequest(Head(call[c].gen))) ELSE streams
    /\ UNCHANGED <<facadeVars, daemonVars, channels, stubs, prov>>

\* ... then signal the end of the input ...
DrainToStreamEnd(c, o) ==
    /\ call[c].pc = "draining" /\ call[c].gen = <<>>
    /\ call' = [call EXCEPT ![c] =
                  IF o = NoExc
                  THEN [call[c] EXCEPT !.pc = "drained", !.sent = Append(@, EndOfInput)]
                  ELSE Raised(c, o)]
    /\ streams' = IF o = NoExc THEN OnStream(c, EndOfInput) ELSE streams
    /\ UNCHANGED <<facadeVars, daemonVars, channels, stubs, prov>>

\* ... and read the acknowledgment; add_media then leaves `async with`.
DrainToStreamRecv(c, o) ==
    /\ call[c].pc = "drained"
    /\ call' = [call EXCEPT ![c] =
                  IF o = NoExc
                  THEN [call[c] EXCEPT !.pc = "done", !.stream = "closed",
                                       !.sent = Append(@, AckRead)]
                  ELSE Raised(c, o)]
    /\ streams' = IF o = NoExc THEN OnStream(c, AckRead) ELSE streams
    /\ UNCHANGED <<facadeVars, daemonVars, channels, stubs, prov>>

\* ------------------------------------------------------------ specifications
ConstructStep ==
    \E fk \in BOOLEAN, u \in Udids, r \in ResolveOutcomes : Construct(fk, u, r)

ProvideStep ==
    \/ \E t \in Callers : ProvideCallSpawner(t)
    \/ \E t \in Callers : ProvideReturn(t)
    \/ \E t \in Callers : ProvideSpawnFailed(t)

\* The task awaiting the call is cancelled: CancelledError is raised in the
\* coroutine at the await it is suspended on (or at its first step, if it has
\* not run yet) and leaves it like any other exception.
Cancel(c) ==
    /\ call[c].pc \in {"started", "awaiting", "sending", "ended", "draining", "drained"}
    /\ call' = [call EXCEPT ![c] = Raised(c, CancelledError)]
    /\ UNCHANGED <<facadeVars, daemonVars, channels, stubs, streams, prov>>

\* list_apps, accessibility_info and approve of the coroutines C
UnaryStep(C, Outs) ==
    \/ \E c \in C : ListAppsCall(c)
    \/ \E c \in C : AccessibilityInfoCall(c)
    \/ \E c \in C : ApproveCall(c)
    \/ \E c \in C, o \in Outs : UnaryReply(c, o)

\* add_media of the coroutines C
UploadStep(C, Tars, Outs) ==
    \/ \E c \in C, tar \in Tars : AddMediaOpen(c, tar)
    \/ \E c \in C, o \in Outs : AddMediaSend(c, o)
    \/ \E c \in C, o \in Outs : AddMediaEnd(c, o)
    \/ \E c \in C, o \in Outs : AddMediaRecv(c, o)
    \/ \E c \in C, o \in Outs : DrainToStreamSend(c, o)
    \/ \E c \in C, o \in Outs : DrainToStreamEnd(c, o)
    \/ \E c \in C, o \in Outs : DrainToStreamRecv(c, o)

\* The coroutines C, called with arguments of Args
CallStepOf(C, Args, Tars, Outs) ==
    \/ \E c \in C, a \in Args : Invoke(c, a)
    \/ UnaryStep(C, Outs)
    \/ UploadStep(C, Tars, Outs)
    \/ \E c \in C : Cancel(c)

CallStep(C) == CallStepOf(C, CallArgs, TarOutputs, Outcomes)

\* The facade with coroutines of both kinds: the callers of provide_client and
\* one caller of a remote operation.  The two kinds share no field they write
\* (provide_client writes daemon_channel and daemon_stub only, the remote
\* operations write nothing), so this product is large, about two million
\* states at the bounds above, and the two specifications after it each keep
\* one kind.
Next == ConstructStep \/ ProvideStep \/ CallStep({"c1"})
Spec == Init /\ [][Next]_vars

\* The facade and the callers of provide_client alone
NextProvide == ConstructStep \/ ProvideStep
SpecProvide == Init /\ [][NextProvide]_vars

\* The facade and one caller of its remote operations alone.  No remote
\* operation reads force_kill_daemon or target_udid.
NextCalls ==
    \/ \E r \in ResolveOutcomes : Construct(FALSE, "None", r)
    \/ CallStep({"c1"})
SpecCalls == Init /\ [][NextCalls]_vars

\* Two concurrent callers of add_media alone, with a short list of paths, a
\* short archive and one kind of transport fault.
UploadArgs ==
    {[op |-> "add_media", paths |-> q, perms |-> {}, point |-> "None"] :
        q \in {<<>>, <<"a", "b">>}}
UploadTars == {<<>>, <<"c1", "c2">>}
UploadOutcomes == {NoExc, StreamTerminatedError("a1")}

NextUploads ==
    \/ \E r \in ResolveOutcomes : Construct(FALSE, "None", r)
    \/ \E c \in Calls, a \in UploadArgs : Invoke(c, a)
    \/ UploadStep(Calls, UploadTars, UploadOutcomes)
    \/ \E c \in Calls : Cancel(c)
SpecUploads == Init /\ [][NextUploads]_vars

\* The facade with the callers of provide_client and one caller of a remote
\* operation, the latter with one argument per operation and one kind of
\* transport fault.
FacadeArgs ==
    { [op |-> "list_apps", paths |-> <<>>, perms |-> {}, point |-> "None"],
      [op |-> "accessibility_info", paths |-> <<>>, perms |-> {}, point |-> "pt"],
      [op |-> "add_media", paths |-> <<"a">>, perms |-> {}, point |-> "None"],
      [op |-> "approve", paths |-> <<>>, perms |-> {"photos"}, point |-> "None"],
      [op |-> "approve", paths |-> <<>>, perms |-> {"microphone"}, point |-> "None"] }
FacadeTars == {<<>>, <<"c1">>}
FacadeOutcomes == {NoExc, GRPCError("m1")}

NextFacade ==
    \/ \E fk \in BOOLEAN, r \in ResolveOutcomes : Construct(fk, "udid1", r)
    \/ ProvideStep
    \/ CallStepOf({"c1"}, FacadeArgs, FacadeTars, FacadeOutcomes)
SpecFacade == Init /\ [][NextFacade]_vars

\* ===================================================================== claims
\* The Channels opened to the daemon so far
DaemonChannels == {i \in DOMAIN channels : channels[i] = "daemon"}

\* The calls of start_daemon_if_needed made by callers that entered
\* provide_client before any call of it had completed successfully
FirstTimeSpawnCalls ==
    {i \in DOMAIN spawnCalls : ~prov[spawnCalls[i].caller].afterSuccess}

\* C1: N callers that invoke provide_client concurrently on a fresh facade
\* cause exactly one call of start_daemon_if_needed in total: the callers that
\* entered before the first success never make more than one such call among
\* them.
C1_OneSpawnAttempt == Cardinality(FirstTimeSpawnCalls) <= 1

\* C2: however the callers of provide_client interleave, at most one Channel to
\* the daemon is ever opened; every caller that has returned holds a handle
\* around the one daemon stub, which is bound to that one Channel.
C2_OneDaemonConnection ==
    /\ Cardinality(DaemonChannels) <= 1
    /\ \A t \in Callers :
          prov[t].pc = "done" =>
             /\ Cardinality(DaemonChannels) = 1
             /\ daemon_channel \in DaemonChannels
             /\ daemon_stub \in DOMAIN stubs
             /\ stubs[daemon_stub] = daemon_channel
             /\ prov[t].handle.stub = daemon_stub
             /\ \A u \in Callers : prov[u].pc = "done" => prov[u].handle = prov[t].handle

\* C2 witness: all callers entered provide_client before any of them had
\* returned, and all have returned.
C2_Witness ==
    /\ \A t \in Callers : prov[t].pc = "done" /\ ~prov[t].afterSuccess
    /\ Len(spawnCalls) = NumCallers

\* C3: a provide_client call that starts after another one completed
\* successfully makes no call of start_daemon_if_needed and opens no second
\* Channel; it returns the cached connection.
C3_NoSecondSpawnOrDial ==
    \A t \in Callers :
       prov[t].afterSuccess =>
          /\ \A i \in DOMAIN spawnCalls : spawnCalls[i].caller # t
          /\ Cardinality(DaemonChannels) = 1
          /\ prov[t].pc = "done" => prov[t].handle.stub = daemon_stub

\* ------------------------------------------------------ remote-operation claims
IsPrefix(p, q) == Len(p) <= Len(q) /\ \A k \in 1..Len(p) : p[k] = q[k]

\* The stream messages (send_message) among the events of a call
MessagesSent(c) == SelectSeq(call[c].sent, LAMBDA m : m.kind = "send")
AckReads(c) == SelectSeq(call[c].sent, LAMBDA m : m.kind = "recv")

\* C4: a transport fault raised while a wrapped remote operation executes
\* reaches the awaiting caller as IdbException: with the message of a
\* GRPCError, with the args of a ProtocolError or StreamTerminatedError; never
\* as the raw transport exception.
C4_TransportFaultsTranslated ==
    \A c \in Calls :
       call[c].pc = "raised" =>
          /\ call[c].fault.type = "GRPCError" =>
                /\ call[c].exc.type = "IdbException"
                /\ call[c].exc.args = <<StrV(call[c].fault.message)>>
          /\ call[c].fault.type \in {"ProtocolError", "StreamTerminatedError"} =>
                /\ call[c].exc.type = "IdbException"
                /\ call[c].exc.args = <<TupV(call[c].fault.args)>>

\* What the stream of a local-peer upload of paths receives, in order
LocalUploadTrace(paths) ==
    [k \in 1..Len(paths) |-> StreamMessage("file_path", paths[k])]
       \o <<EndOfInput, AckRead>>

\* C5: a local-peer add_media of [p1..pn] that completes has put on its stream
\* exactly the n path messages in the order p1..pn, then one end-of-input, then
\* one acknowledgment read; at every moment of the call what the stream has
\* seen is a prefix of that sequence (nothing sent after end-of-input, no
\* acknowledgment read before it).
C5_LocalUploadOrder ==
    \A c \in Calls :
       (call[c].op = "add_media" /\ companion_info = "local") =>
          /\ IsPrefix(call[c].sent, LocalUploadTrace(call[c].paths))
          /\ call[c].pc = "done" => call[c].sent = LocalUploadTrace(call[c].paths)

\* C5 witness: a completed local-peer upload of two different paths
C5_Witness ==
    \E c \in Calls :
       /\ call[c].op = "add_media" /\ companion_info = "local"
       /\ call[c].pc = "done" /\ call[c].paths = <<"b", "a">>

\* C6: a remote-peer add_media that completes has sent exactly the chunks of
\* the archive generator as data messages, in the generator's order, and has
\* read one acknowledgment, after the last of them; while it runs, the data
\* messages sent are a prefix of the generator's output.
C6_RemoteUploadChunks ==
    \A c \in Calls :
       (call[c].op = "add_media" /\ companion_info = "remote") =>
          /\ IsPrefix(MessagesSent(c),
                      [k \in 1..Len(call[c].tar) |-> StreamMessage("data", call[c].tar[k])])
          /\ call[c].pc = "done" =>
                /\ Len(MessagesSent(c)) = Len(call[c].tar)
                /\ Len(AckReads(c)) = 1
                /\ call[c].sent[Len(call[c].sent)] = AckRead

\* C6 witness: a completed remote-peer upload of an archive of two different chunks
C6_Witness ==
    \E c \in Calls :
       /\ call[c].op = "add_media" /\ companion_info = "remote"
       /\ call[c].pc = "done" /\ call[c].tar = <<"c2", "c1">>

\* C7: an approve call whose permission set holds a name that is no key of
\* APPROVE_MAP sends nothing on the companion connection and never gets as far
\* as awaiting a reply.
C7_UnknownPermissionSendsNothing ==
    \A c \in Calls :
       (call[c].op = "approve" /\ ~(call[c].perms \subseteq {"photos", "camera", "contacts"})) =>
          /\ call[c].sent = <<>>
          /\ call[c].pc \in {"started", "raised"}

\* C7 witness: on a facade with a companion stub, approve was called with a
\* known and an unknown name and has failed.
C7_Witness ==
    \E c \in Calls :
       /\ call[c].op = "approve" /\ stub # None
       /\ call[c].perms = {"photos", "microphone"}
       /\ call[c].pc = "raised" /\ call[c].fault.type = "KeyError"

\* C8: an approve call with an unrecognized capability name (on a facade whose
\* companion was resolved) fails with the domain error IdbException, not with
\* a raw lookup exception.
C8_UnknownPermissionIsDomainError ==
    \A c \in Calls :
       (/\ call[c].op = "approve" /\ stub # None
        /\ ~(call[c].perms \subseteq {"photos", "camera", "contacts"})
        /\ call[c].pc = "raised" /\ call[c].fault # CancelledError) =>
          call[c].exc.type = "IdbException"

\* C9: when get_companion_info raises IdbException, __init__ returns normally,
\* has logged the failure, leaves channel and stub unset, and provide_client
\* still creates and returns the daemon connection.
C9_ResolutionFailureNotFatal ==
    resolved = "IdbException" =>
       /\ constructed = "ok"
       /\ logged = <<"IdbException">>
       /\ channel = None /\ stub = None
       /\ \A t \in Callers :
             prov[t].pc = "done" =>
                /\ daemon_channel \in DaemonChannels
                /\ daemon_stub \in DOMAIN stubs
                /\ prov[t].handle.stub = daemon_stub

\* C9 witness: resolution failed with the domain error and a provide_client
\* call has returned its handle.
C9_Witness ==
    /\ resolved = "IdbException"
    /\ \E t \in Callers : prov[t].pc = "done" /\ prov[t].handle.stub # None

\* C10: on a facade whose peer resolution failed at construction, a
\* direct-companion call (list_apps, accessibility_info, add_media, approve)
\* fails with IdbException and with no other exception kind.
C10_UnresolvedCallsFailWithDomainError ==
    \A c \in Calls :
       (/\ resolved = "IdbException" /\ call[c].pc \notin {"idle", "started"}
        /\ call[c].fault # CancelledError) =>
          /\ call[c].pc = "raised"
          /\ call[c].exc.type = "IdbException"

\* ------------------------------------------------------------- further claims
\* The Channels opened to the companion so far
CompanionChannels == {i \in DOMAIN channels : channels[i] = "companion"}

\* C11: a facade has opened at most one Channel to the daemon and at most one
\* to the companion, and a connection slot (daemon_channel, daemon_stub,
\* channel, stub) that holds a connection keeps it through every later step
\* of provide_client and of the remote calls.
C11_SlotsWriteOnce ==
    /\ [](Cardinality(DaemonChannels) <= 1 /\ Cardinality(CompanionChannels) <= 1)
    /\ [][/\ daemon_channel # None => daemon_channel' = daemon_channel
          /\ daemon_stub # None => daemon_stub' = daemon_stub
          /\ channel # None => channel' = channel
          /\ stub # None => stub' = stub]_vars

\* C11 witness: both connections exist, a provide_client call that started
\* after the first success has returned, and a remote call has completed.
C11_Witness ==
    /\ daemon_channel # None /\ channel # None
    /\ \E t \in Callers : prov[t].pc = "done" /\ prov[t].afterSuccess
    /\ call["c1"].pc = "done"

\* C12: an add_media call that has ended (returned, failed at a send, end or
\* receive, or was cancelled at a suspension point) has not left its stream
\* open; a stream it opened is closed.
C12_StreamClosedOnEveryExit ==
    \A c \in Calls :
       call[c].pc \in {"done", "raised"} =>
          /\ call[c].stream # "open"
          /\ call[c].sid # None => call[c].stream = "closed"

\* C12 witness: an upload cancelled after its first message, its stream closed
C12_Witness ==
    \E c \in Calls :
       /\ call[c].op = "add_media" /\ call[c].fault = CancelledError
       /\ Len(call[c].sent) = 1 /\ call[c].stream = "closed"

\* C13: every remote-call entry point of a constructed facade passes through
\* log_and_handle_exceptions: every call installed from the registry and
\* add_media.
C13_EveryEntryPointWrapped ==
    constructed = "ok" =>
       /\ "add_media" \in DecoratedMethods
       /\ \A n \in DOMAIN installed : installed[n].wrapped

\* C14: once a send, end or receive step of an add_media call has failed, the
\* call has ended with a failure for its caller and its stream is closed; from
\* then on the call does nothing more: no message, no end-of-input and no
\* acknowledgment read is added to what it did on its stream.
C14_FailedUploadAborts ==
    /\ [](\A c \in Calls :
            (call[c].op = "add_media" /\ call[c].fault # NoExc) =>
               /\ call[c].pc = "raised"
               /\ call[c].stream # "open"
               /\ call[c].exc # NoExc)
    /\ [][\A c \in Calls :
            (call[c].op = "add_media" /\ call[c].pc = "raised") =>
               /\ call'[c] = call[c]
               /\ call[c].sid # None => streams'[call[c].sid] = streams[call[c].sid]]_vars

\* C14 witness: a local upload of two paths whose second send failed
C14_Witness ==
    \E c \in Calls :
       /\ call[c].op = "add_media" /\ Len(call[c].paths) = 2
       /\ call[c].pc = "raised" /\ call[c].fault.type = "GRPCError"
       /\ Len(call[c].sent) = 1 /\ call[c].stream = "closed"

\* C15: an exception raised by a wrapped remote operation that is none of
\* GRPCError, ProtocolError and StreamTerminatedError reaches the caller as it
\* was raised.
C15_OtherExceptionsUnmodified ==
    \A c \in Calls :
       (/\ call[c].pc = "raised"
        /\ call[c].fault.type \notin {"GRPCError", "ProtocolError", "StreamTerminatedError"}) =>
          call[c].exc = call[c].fault

\* C15 witness: a transport call raised an exception of another class
C15_Witness ==
    \E c \in Calls : call[c].pc = "raised" /\ call[c].fault.type = "OSError"

\* What was done on stream s, in order
EventsOn(s) == [k \in DOMAIN streams[s].events |-> streams[s].events[k].msg]

\* C16: two add_media calls of one facade never hold the same stream, and
\* everything done on a stream (message, end-of-input, acknowledgment read) was
\* done by the call that opened it, and is all that this call did.
C16_OwnStreamPerUpload ==
    /\ \A c, d \in Calls :
          (c # d /\ call[c].sid # None /\ call[d].sid # None) =>
             call[c].sid # call[d].sid
    /\ \A c \in Calls :
          call[c].sid # None =>
             /\ call[c].sid \in DOMAIN streams
             /\ streams[call[c].sid].owner = c
             /\ \A k \in DOMAIN streams[call[c].sid].events :
                   streams[call[c].sid].events[k].by = c
             /\ EventsOn(call[c].sid) = call[c].sent

\* C16 witness: two uploads in flight at once, each with a message on its stream
C16_Witness ==
    /\ call["c1"].stream = "open" /\ call["c2"].stream = "open"
    /\ Len(call["c1"].sent) >= 1 /\ Len(call["c2"].sent) >= 1

\* The names of the registry
RegistryNames == {Registry[k] : k \in DOMAIN Registry}

\* C17: construction asks the registry for its calls once, with provide_client
\* as the daemon provider, and installs each name's handler under that name;
\* afterwards no step changes the installed names or their bindings.
C17_BindingsFixedAtConstruction ==
    /\ [](constructed # "no" =>
            /\ loaderCalls = <<"provide_client">>
            /\ DOMAIN installed = RegistryNames
            /\ \A n \in RegistryNames :
                  installed[n].f = [handler |-> n, provider |-> "provide_client"])
    /\ [][constructed # "no" =>
            (installed' = installed /\ loaderCalls' = loaderCalls)]_vars

\* C17 witness: after construction a provide_client call and a remote call
\* have both completed.
C17_Witness ==
    /\ DOMAIN installed = {"launch", "install", "terminate"}
    /\ \E t \in Callers : prov[t].pc = "done"
    /\ call["c1"].pc = "done"

\* C18: get_companion_info is called once, by __init__: not at all before
\* construction and exactly once at any moment after it, whatever calls of
\* provide_client and of the remote operations have run, and whether that
\* resolution succeeded or failed.
C18_ResolverCalledOnce ==
    /\ constructed = "no" => resolveCalls = 0
    /\ constructed # "no" => resolveCalls = 1

\* C18 witness: resolution failed, and afterwards a provide_client call
\* returned and a direct call failed for want of a stub.
C18_Witness ==
    /\ resolved = "IdbException" /\ resolveCalls = 1
    /\ \E t \in Callers : prov[t].pc = "done"
    /\ call["c1"].pc = "raised" /\ call["c1"].fault.type = "AttributeError"

\* C19: daemon_channel and daemon_stub are both unset or both set, and when
\* set the stub is the one bound to the stored channel.
C19_DaemonPairConsistent ==
    \/ daemon_channel = None /\ daemon_stub = None
    \/ /\ daemon_channel # None /\ daemon_stub # None
       /\ daemon_stub \in DOMAIN stubs
       /\ stubs[daemon_stub] = daemon_channel

\* C19 witness: the pair is set while another caller is suspended in
\* provide_client.
C19_Witness ==
    /\ daemon_channel # None /\ daemon_stub # None
    /\ \E t \in Callers : prov[t].pc = "spawning"

\* The calls of start_daemon_if_needed that caller t made
SpawnCallsOf(t) == {i \in DOMAIN spawnCalls : spawnCalls[i].caller = t}

\* C20: a provide_client call whose spawner failed ends with the spawner's
\* failure, holds no handle and called the spawner once; the step that fails
\* it opens nothing and leaves daemon_channel and daemon_stub as they were, so
\* they are unset as long as no call has succeeded.
C20_SpawnFailureLeavesSlots ==
    /\ [](/\ \A t \in Callers :
               prov[t].pc = "failed" =>
                  /\ prov[t].exc = OSError("spawn")
                  /\ prov[t].handle = NoHandle
                  /\ Cardinality(SpawnCallsOf(t)) = 1
          /\ (\A t \in Callers : prov[t].pc # "done") =>
               (daemon_channel = None /\ daemon_stub = None /\ DaemonChannels = {}))
    /\ [][\A t \in Callers :
            (prov[t].pc = "spawning" /\ prov'[t].pc = "failed") =>
               UNCHANGED <<daemon_channel, daemon_stub, channels, stubs, spawnCalls>>]_vars

\* C20 witness: on a fresh facade every caller's spawner failed
C20_Witness ==
    /\ \A t \in Callers : prov[t].pc = "failed"
    /\ daemon_channel = None /\ daemon_stub = None
====
